---- MODULE Spec2Model ----
(***************************************************************************)
(* Model of src/App.tsx: the audio transport hook useAudioPlayer, the      *)
(* generation handlers of the App component and the IndexedDB record       *)
(* store.                                                                  *)
(*                                                                         *)
(* Time is counted in frame periods of the audio context: the duration of  *)
(* a decoded buffer is its frame count, and AudioCTX.currentTime advances  *)
(* one period at a time.                                                   *)
(***************************************************************************)
EXTENDS Integers, Sequences, FiniteSets

VARIABLES
    \* ---- useAudioPlayer (src/App.tsx:47-117) ----
    audioBlob,        \* the hook's argument as of the last render
    isPlaying,        \* useState(false)
    duration,         \* useState(0)
    currentTime,      \* useState(0)
    audioBufferRef,   \* useRef(null): the decoded buffer
    sourceRef,        \* useRef(null): id of the source node, 0 for null
    timerRef,         \* useRef(null): id of the interval, 0 for null
    startTimeRef,     \* useRef(0)
    decodes,          \* processAudio runs that have not completed yet
    sources,          \* every AudioBufferSourceNode created so far
    timers,           \* the intervals that are running
    ctxTime,          \* AudioCTX.currentTime
    nChanges,         \* number of changes of the hook's argument so far
    \* ---- history of the transport, read by the properties only ----
    pausedAt,         \* currentTime at the last pause() not followed by a
                      \* play() or a change of clip yet; -1 when there is none
    undisturbed,      \* the sources started by a play() that no pause() and
                      \* no change of clip has followed
    decodeFailed,     \* the decode of the hook's clip has failed, and no
                      \* decode has succeeded since
    \* ---- App (src/App.tsx:445-455) ----
    todayString,      \* useState(''), set by the mount effect
    revelation,       \* useState(null)
    prayer,           \* useState(null)
    isLoading,        \* useState(false)
    isLoadingPrayer,  \* useState(false)
    error,            \* useState('')
    playRevelationOnLoad,  \* useState(false)
    \* ---- environment of the App ----
    store,            \* object store 'revelacoes', keyed by date
    loadPc,           \* loadRevelation of the mount effect: "pending" or "done"
    requests,         \* the handler invocations that are suspended at an await
    calls,            \* the getGeminiResponse calls in flight
    nBlobs,           \* number of Blob objects created so far
    nFailures,        \* number of failures of a service or of the store so far
    \* ---- history of the App, read by the properties only ----
    last,             \* how the last finished request ended
    \* ---- handleShare (src/App.tsx:522-550) and its environment ----
    shares,           \* the handleShare invocations suspended at an await
    nShares,          \* number of handleShare invocations so far
    lastShare,        \* history: how the last finished share request ended
    \* ---- decodePcmData and pcmToWav (src/App.tsx:28-45, 120-165) ----
    data,             \* the bytes of the Blob given to the function
    numChannels,      \* the channel count given to decodePcmData
    buffer,           \* what decodePcmData returned or threw
    wavBlob           \* what the promise of pcmToWav settled with

tvars == <<audioBlob, isPlaying, duration, currentTime, audioBufferRef,
           sourceRef, timerRef, startTimeRef, decodes, sources, timers,
           ctxTime, nChanges>>

hvars == <<pausedAt, undisturbed, decodeFailed>>

avars == <<todayString, revelation, prayer, isLoading, isLoadingPrayer, error,
           playRevelationOnLoad, store, loadPc, requests, calls, nBlobs,
           nFailures, last>>

svars == <<shares, nShares, lastShare>>

cvars == <<data, numChannels, buffer, wavBlob>>

vars == <<tvars, hvars, avars, svars, cvars>>

\* ---------------------------------------------------------------- bounds
MaxTime == 3
MaxSources == 3
MaxChanges == 1
MaxFailures == 2
MaxShares == 1
MaxLen == 6

\* ================================================================ the codecs
\* ------------------------------------------------------------ byte sequences
\* The byte values the inputs are built from: the extremes of both halves of
\* the range of a byte.
Bytes == {0, 127, 128, 255}

\* The byte sequences of at most n bytes.
ByteSeqs(n) == UNION { [1..k -> Bytes] : k \in 0..n }

\* Payloads of silence that are long enough for the sizes in the header to
\* need more than one byte.
SilenceLens == {220, 256}
Silence(n) == [i \in 1..n |-> 0]

PcmInputs == ByteSeqs(MaxLen) \cup { Silence(n) : n \in SilenceLens }

\* The channel counts decodePcmData is given.
ChannelCounts == {1, 2}

\* ------------------------------------------------------------ decodePcmData
\* dataInt16[k] (line 34): the Int16Array view of the bytes, on a host whose
\* byte order is little-endian.
Uint16At(bytes, k) == bytes[2 * k + 1] + 256 * bytes[2 * k + 2]

Int16At(bytes, k) ==
    LET u == bytes[2 * k + 1] + 256 * bytes[2 * k + 2]
    IN IF u >= 32768 THEN u - 65536 ELSE u

\* The conversion of the number num / den to the unsigned long that
\* createBuffer takes as its length: the integer part (modulo 2^32, which
\* no length of a typed array reaches).
ToUnsignedLong(num, den) == num \div den

\* A sample of a channel: dataInt16[...] / 32768.0, which a float holds
\* exactly.
Sample(int16) == [num |-> int16, den |-> 32768]

NotRun == [st |-> "none", frames |-> 0, channels |-> << >>, err |-> ""]
Thrown(err) == [st |-> "thrown", frames |-> 0, channels |-> << >>, err |-> err]

\* decodePcmData(data, ctx, sampleRate, numChannels), lines 28-45.
\* new Int16Array(data.buffer) throws a RangeError for an odd byte length;
\* createBuffer throws a NotSupportedError for a length of 0; the loop writes
\* channelData[i] for i < frameCount, and a write past the end of the
\* channel is ignored.
decodePcmData(bytes, channels) ==
    IF Len(bytes) % 2 # 0
      THEN Thrown("RangeError")
      ELSE LET length == Len(bytes) \div 2
               frameCount == ToUnsignedLong(length, channels)
           IN IF frameCount = 0
                THEN Thrown("NotSupportedError")
                ELSE [st |-> "returned",
                      frames |-> frameCount,
                      channels |->
                         [channel \in 1..channels |->
                            [i \in 1..frameCount |->
                               Sample(Int16At(bytes,
                                   (i - 1) * channels + (channel - 1)))]],
                      err |-> ""]

\* ------------------------------------------------------------ pcmToWav
SampleRate == 24000
BitsPerSample == 16

\* writeString (lines 131-135): the char codes of the four tags.
RIFF == <<82, 73, 70, 70>>
WAVE == <<87, 65, 86, 69>>
FMT == <<102, 109, 116, 32>>
DATA == <<100, 97, 116, 97>>

\* view.setUint32(offset, value, false): the four bytes, high byte first.
SetUint32BigEndian(value) ==
    << (value \div 16777216) % 256, (value \div 65536) % 256,
       (value \div 256) % 256, value % 256 >>

\* view.setUint32(offset, value, true): the low 32 bits of the value as
\* four bytes, low byte first.
SetUint32(value) ==
    << value % 256, (value \div 256) % 256, (value \div 65536) % 256,
       (value \div 16777216) % 256 >>

\* view.setUint16(offset, value, true): the low 16 bits of the value as two
\* bytes, low byte first.
SetUint16(value) == << value % 256, (value \div 256) % 256 >>

\* The 44 bytes of the header (lines 128-157).
WavHeader(dataSize, sampleRate, channels, bitsPerSample) ==
    LET fileSize == 36 + dataSize
    IN RIFF \o SetUint32(fileSize) \o WAVE
       \o FMT \o SetUint32(16) \o SetUint16(1)
       \o SetUint16(channels)
       \o SetUint32(sampleRate)
       \o SetUint32(sampleRate * channels * (bitsPerSample \div 8))
       \o SetUint16(channels * (bitsPerSample \div 8))
       \o SetUint16(bitsPerSample)
       \o DATA \o SetUint32(dataSize)

\* The Blob as it would be had the two parts been given in the other order.
PcmThenHeader(pcmData, sampleRate, channels, bitsPerSample) ==
    pcmData \o WavHeader(Len(pcmData), sampleRate, channels, bitsPerSample)

\* new Blob([header, pcmData]) (line 159): what pcmToWav resolves with once
\* the reader has loaded the bytes.
pcmToWav(pcmData, sampleRate, channels, bitsPerSample) ==
    WavHeader(Len(pcmData), sampleRate, channels, bitsPerSample) \o pcmData

\* The size of that Blob.
WavSize(dataSize) == Len(WavHeader(dataSize, SampleRate, 1, BitsPerSample)) + dataSize

NotSettled == [st |-> "none", bytes |-> << >>]
Rejected == [st |-> "rejected", bytes |-> << >>]
Resolved(bytes) == [st |-> "resolved", bytes |-> bytes]

\* ------------------------------------------------------------ codec spec
\* decodePcmData is applied to the input.
DecodePcmData ==
    /\ buffer = NotRun
    /\ buffer' = decodePcmData(data, numChannels)
    /\ UNCHANGED <<data, numChannels, wavBlob>>

\* pcmToWav is applied to the input: the reader loads the bytes (onload), or
\* fails to (onerror, or a load without a result).
PcmToWav ==
    /\ wavBlob = NotSettled
    /\ \E loaded \in BOOLEAN :
          wavBlob' = IF loaded
                       THEN Resolved(pcmToWav(data, SampleRate, 1, BitsPerSample))
                       ELSE Rejected
    /\ UNCHANGED <<data, numChannels, buffer>>

CodecInit ==
    /\ data \in PcmInputs
    /\ numChannels \in ChannelCounts
    /\ buffer = NotRun
    /\ wavBlob = NotSettled

\* No function has been given anything.
CodecIdle ==
    /\ data = << >>
    /\ numChannels = 1
    /\ buffer = NotRun
    /\ wavBlob = NotSettled

CodecUnchanged == UNCHANGED cvars

\* ================================================================ the transport

\* ------------------------------------------------------------ audio data
\* A clip is a Blob of raw PCM bytes: an object identity and a byte length.
NoClip == [obj |-> 0, len |-> 0]
NoBuffer == [obj |-> 0, frames |-> 0]

\* The clips the transport is given: two decodable ones of different
\* lengths and one of odd byte length.
Clips == { [obj |-> 1, len |-> 4], [obj |-> 2, len |-> 2], [obj |-> 3, len |-> 3] }

\* decodePcmData(data, ctx, 24000, 1) throws: new Int16Array(data.buffer)
\* when the byte length is odd, createBuffer when there is no frame.
DecodeFails(blob) == blob.len % 2 # 0 \/ ToUnsignedLong(blob.len \div 2, 1) = 0

\* The buffer decodePcmData returns: frameCount = dataInt16.length / 1.
DecodedBuffer(blob) == [obj |-> blob.obj, frames |-> ToUnsignedLong(blob.len \div 2, 1)]

\* audioBuffer.duration, in frame periods.
BufferDuration(buf) == buf.frames

Min(a, b) == IF a <= b THEN a ELSE b

\* ------------------------------------------------------------ the sources
\* st: "playing"  (started, not stopped, buffer not exhausted),
\*     "stopped"  (stop() was called; its ended event is not delivered yet),
\*     "finished" (buffer exhausted; its ended event is not delivered yet),
\*     "ended"    (the ended event has been delivered).
\* endAt is the instant at which the buffer, started at its offset, runs out;
\* dur is the value of `duration` the onended closure captured.  A source
\* whose ended event has been delivered takes part in nothing any more, and
\* only its state is kept.
SourceIds == DOMAIN sources

EndedSource ==
    [buffer |-> NoBuffer, endAt |-> 0, st |-> "ended", dur |-> 0]

\* A running interval: its id and the `duration` its callback captured.

\* AudioScheduledSourceNode.stop(): a playing source stops and its ended
\* event is queued; stopping a source that has stopped already does nothing.
StopSource(id) ==
    [sources EXCEPT ![id].st = IF @ = "playing" THEN "stopped" ELSE @]

\* clearInterval(timerRef.current)
ClearTimer == { t \in timers : t.id # timerRef }

\* ------------------------------------------------------------ the effect
\* The cleanup of the effect (lines 71-78), then the effect for the new
\* argument (lines 56-69).  The cleanup exists only when the previous
\* argument was a clip: the effect returns early, with no cleanup, for none.
EffectCleanupSources ==
    IF audioBlob # NoClip /\ sourceRef # 0 THEN StopSource(sourceRef) ELSE sources

EffectCleanupTimers ==
    IF audioBlob # NoClip THEN ClearTimer ELSE timers

Rerender(blob) ==
    /\ audioBlob' = blob
    /\ sources' = EffectCleanupSources
    /\ timers' = EffectCleanupTimers
    /\ decodes' = IF blob # NoClip
                    THEN [b \in DOMAIN decodes \cup {blob} |->
                            IF b # blob THEN decodes[b]
                            ELSE IF b \in DOMAIN decodes THEN decodes[b] + 1
                            ELSE 1]
                    ELSE decodes
    /\ UNCHANGED <<isPlaying, duration, currentTime, audioBufferRef,
                   sourceRef, timerRef, startTimeRef, ctxTime>>

\* The parent renders the hook with another clip, or with none.
SetClip ==
    /\ nChanges < MaxChanges
    /\ \E blob \in Clips \cup {NoClip} :
          /\ blob # audioBlob
          /\ Rerender(blob)
    /\ nChanges' = nChanges + 1
    /\ pausedAt' = -1
    /\ undisturbed' = {}
    /\ decodeFailed' = FALSE

\* processAudio (lines 58-68) completes for one clip.
ProcessAudio ==
    \E blob \in DOMAIN decodes :
       /\ decodes[blob] > 0
       /\ decodes' = [decodes EXCEPT ![blob] = @ - 1]
       /\ IF DecodeFails(blob)
            THEN UNCHANGED <<audioBufferRef, duration, currentTime>>
            ELSE /\ audioBufferRef' = DecodedBuffer(blob)
                 /\ duration' = BufferDuration(DecodedBuffer(blob))
                 /\ currentTime' = 0
       /\ IF DecodeFails(blob)
            THEN /\ UNCHANGED <<pausedAt, undisturbed>>
                 /\ decodeFailed' = IF blob = audioBlob THEN TRUE ELSE decodeFailed
            ELSE pausedAt' = -1 /\ undisturbed' = {} /\ decodeFailed' = FALSE
       /\ UNCHANGED <<audioBlob, isPlaying, sourceRef, timerRef, startTimeRef,
                      sources, timers, ctxTime, nChanges>>

\* ------------------------------------------------------------ play, pause
\* The guard of play as it would be without its test of isPlaying.
PlayGuardWithoutIsPlaying == audioBufferRef # NoBuffer

\* play (lines 81-105)
PlayGuard == audioBufferRef # NoBuffer /\ ~isPlaying

play ==
    IF ~PlayGuard
      THEN UNCHANGED <<tvars, hvars>>
      ELSE LET id == Len(sources) + 1
               offset == currentTime
               endAt == ctxTime + (BufferDuration(audioBufferRef) - offset)
           IN /\ Len(sources) < MaxSources
              /\ sourceRef' = id
              /\ startTimeRef' = ctxTime - offset
              /\ sources' = Append(sources,
                     [buffer |-> audioBufferRef,
                      endAt  |-> endAt,
                      st     |-> IF endAt <= ctxTime THEN "finished" ELSE "playing",
                      dur    |-> duration])
              /\ isPlaying' = TRUE
              /\ timerRef' = id
              /\ timers' = timers \cup {[id |-> id, dur |-> duration]}
              /\ pausedAt' = -1
              /\ undisturbed' = undisturbed \cup {id}
              /\ UNCHANGED <<audioBlob, duration, currentTime, audioBufferRef,
                             decodes, ctxTime, nChanges, decodeFailed>>

\* pause (lines 107-114)
PauseGuard == isPlaying /\ sourceRef # 0

pause ==
    IF ~PauseGuard
      THEN UNCHANGED <<tvars, hvars>>
      ELSE /\ sources' = StopSource(sourceRef)
           /\ sourceRef' = 0
           /\ isPlaying' = FALSE
           /\ timers' = ClearTimer
           /\ pausedAt' = currentTime
           /\ undisturbed' = {}
           /\ UNCHANGED <<audioBlob, duration, currentTime, audioBufferRef,
                          timerRef, startTimeRef, decodes, ctxTime, nChanges,
                          decodeFailed>>

\* ------------------------------------------------------------ callbacks
\* The onended handler of source id (lines 93-99), run when its ended event
\* is delivered.
OnEndedResets(id) == ctxTime - startTimeRef >= sources[id].dur

onended(id) ==
    /\ sources[id].st \in {"stopped", "finished"}
    /\ sources' = [sources EXCEPT ![id] = EndedSource]
    /\ isPlaying' = FALSE
    /\ timers' = ClearTimer
    /\ currentTime' = IF OnEndedResets(id) THEN 0 ELSE currentTime
    /\ UNCHANGED <<audioBlob, duration, audioBufferRef, sourceRef, timerRef,
                   startTimeRef, decodes, ctxTime, nChanges>>
    /\ UNCHANGED hvars

OnEnded == \E id \in SourceIds : onended(id)

\* The interval callback of timer id (lines 101-104).
Tick ==
    \E t \in timers :
       /\ currentTime' = Min(ctxTime - startTimeRef, t.dur)
       /\ UNCHANGED <<audioBlob, isPlaying, duration, audioBufferRef, sourceRef,
                      timerRef, startTimeRef, decodes, sources, timers, ctxTime,
                      nChanges>>
       /\ UNCHANGED hvars

\* The audio clock advances one period; a playing source whose buffer is
\* exhausted by then finishes and queues its ended event.
AdvanceClock ==
    /\ ctxTime < MaxTime
    /\ ctxTime' = ctxTime + 1
    /\ sources' = [i \in SourceIds |->
                     IF sources[i].st = "playing" /\ sources[i].endAt <= ctxTime + 1
                       THEN [sources[i] EXCEPT !.st = "finished"]
                       ELSE sources[i]]
    /\ UNCHANGED <<audioBlob, isPlaying, duration, currentTime, audioBufferRef,
                   sourceRef, timerRef, startTimeRef, decodes, timers, nChanges>>
    /\ UNCHANGED hvars

\* ------------------------------------------------------------ transport spec
\* The hook after its first render and effect, for any first argument.
PlayerInit ==
    /\ audioBlob \in Clips \cup {NoClip}
    /\ isPlaying = FALSE
    /\ duration = 0
    /\ currentTime = 0
    /\ audioBufferRef = NoBuffer
    /\ sourceRef = 0
    /\ timerRef = 0
    /\ startTimeRef = 0
    /\ decodes = [b \in Clips |-> IF b = audioBlob THEN 1 ELSE 0]
    /\ sources = << >>
    /\ timers = {}
    /\ ctxTime = 0
    /\ nChanges = 0
    /\ pausedAt = -1
    /\ undisturbed = {}
    /\ decodeFailed = FALSE


\* ================================================================ the App
\* ------------------------------------------------------------ themes
\* Lines 233-234, with the accents of the theme names left out.
Sentinel == "Surpreenda-me"

VISIBLE_THEMES ==
    <<"Perdao", "Fe", "Amor", "Gratidao", "Proposito", "Coragem", "Humildade",
      "Surpreenda-me">>

IsConcrete(t) == t # Sentinel

\* The catalog as it would be had the filter of line 234 been forgotten.
AllThemesUnfiltered ==
    VISIBLE_THEMES \o
    <<"Esperanca", "Superacao", "Depressao", "Financas", "Casamento", "Familia",
      "Paciencia", "Perseveranca", "Confianca", "Sabedoria", "Transformacao">>

ALL_THEMES ==
    SelectSeq(VISIBLE_THEMES, IsConcrete) \o
    <<"Esperanca", "Superacao", "Depressao", "Financas", "Casamento", "Familia",
      "Paciencia", "Perseveranca", "Confianca", "Sabedoria", "Transformacao">>

Range(seq) == { seq[i] : i \in DOMAIN seq }

\* seq[i] of JavaScript: zero-based, undefined outside the array.
At(seq, i) == IF i + 1 \in DOMAIN seq THEN seq[i + 1] ELSE "undefined"

\* Values of Math.random(), in [0, 1), as fractions.
RandomSamples ==
    { [num |-> 0, den |-> 5], [num |-> 2, den |-> 5], [num |-> 99, den |-> 100] }

\* Math.floor(Math.random() * ALL_THEMES.length)
RandomIndex(rnd, length) == (rnd.num * length) \div rnd.den

\* finalTheme of handleGenerateRevelation (lines 481-484)
FinalTheme(theme, rnd) ==
    IF theme = Sentinel
      THEN At(ALL_THEMES, RandomIndex(rnd, Len(ALL_THEMES)))
      ELSE theme

\* ------------------------------------------------------------ prompts
\* A prompt is the template it was built from and the values embedded in it;
\* the text handed to the speech model is spoken as it is.
RevelationPrompt(name, theme) ==
    [tpl |-> "revelation", name |-> name, theme |-> theme, text |-> ""]

\* The prayer prompt as it would be were the theme left out of it.
PrayerPromptWithoutTheme(rev) ==
    [tpl |-> "prayer", name |-> rev.name, theme |-> "", text |-> ""]

PrayerPrompt(rev) ==
    [tpl |-> "prayer", name |-> rev.name, theme |-> rev.theme, text |-> ""]

Verbatim(text) == [tpl |-> "verbatim", name |-> "", theme |-> "", text |-> text]

\* ------------------------------------------------------------ inputs
Names == {"Ana"}
Texts == {"t1", "t2"}
\* Byte lengths of the PCM payloads the speech model returns.
SpeechLens == {2, 3}

Today == "d2"
DateKeys == {"d1", "d2"}

NoRecord == [date |-> "", text |-> "", audio |-> NoClip, name |-> "", theme |-> ""]
NoPrayer == [text |-> "", audio |-> NoClip]

\* A record an earlier session left in the store under date d.
EarlierRecord(d) ==
    [date |-> d, text |-> "t0", audio |-> [obj |-> 0, len |-> 4], name |-> "Bia",
     theme |-> "Amor"]

RevelationError == "Nao foi possivel gerar a revelacao. Tente novamente."
PrayerError == "Nao foi possivel gerar a oracao. Tente novamente."

NoOutcome == [kind |-> "", outcome |-> "", storeBefore |-> << >>]

\* ------------------------------------------------------------ the store
\* getRevelationFromDB (lines 15-18): db.get('revelacoes', date)
DbGet(date) == IF date \in DOMAIN store THEN store[date] ELSE NoRecord

\* The store as it would be were a put to clear the object store first.
DbPutAlone(rec) == [d \in {rec.date} |-> rec]

\* saveRevelationToDB (lines 20-23): db.put upserts under keyPath 'date'
DbPut(rec) == [d \in DOMAIN store \cup {rec.date} |->
                 IF d = rec.date THEN rec ELSE store[d]]

\* ------------------------------------------------------------ what is rendered
\* Lines 575-597: the loading animation, else the card, else the form.
FormShown == ~isLoading /\ revelation = NoRecord
CardShown == ~isLoading /\ revelation # NoRecord

\* The submit button of the form (line 318: disabled={isLoading}).
CanSubmit == FormShown /\ ~isLoading

\* The prayer button of the card as it would be without its disabled
\* attribute.
CanAskPrayerNotDisabled == CardShown /\ prayer = NoPrayer

\* The prayer button of the card (lines 383-391).
CanAskPrayer == CardShown /\ prayer = NoPrayer /\ ~isLoadingPrayer

\* React runs the effects of a render before it handles the next user event.
EffectsFlushed == ~(playRevelationOnLoad /\ revelation.audio # NoClip)

\* ------------------------------------------------------------ requests
FreshId == CHOOSE i \in 1..(Cardinality(requests) + 1) :
              \A r \in requests : r.id # i

InFlight(kind) == { r \in requests : r.kind = kind }

\* getGeminiResponse(prompt, isAudio) is called by request id.
Call(id, isAudio, prompt) == [req |-> id, isAudio |-> isAudio, prompt |-> prompt]

\* The speech call as it would be were it given the prompt of the text call.
SpeechCallOfPrompt(r, text) == Call(r.id, TRUE, r.prompt)

\* The call request r makes once its text is there (lines 490 and 513).
SpeechCall(r, text) == Call(r.id, TRUE, Verbatim(text))

\* The mount effect's loadRevelation (lines 460-466) completes.  The get was
\* queued at mount, before any put, and the store serves them in order.
LoadDone ==
    /\ loadPc = "pending"
    /\ loadPc' = "done"
    /\ LET saved == DbGet(todayString)
       IN IF saved # NoRecord
            THEN /\ revelation' = [saved EXCEPT !.audio.obj = nBlobs + 1]
                 /\ nBlobs' = nBlobs + 1
            ELSE UNCHANGED <<revelation, nBlobs>>
    /\ UNCHANGED <<todayString, prayer, isLoading, isLoadingPrayer, error,
                   playRevelationOnLoad, store, requests, calls, nFailures, last>>

\* getRevelationFromDB rejects: loadRevelation ends with nothing set.
LoadFailed ==
    /\ loadPc = "pending"
    /\ nFailures < MaxFailures
    /\ loadPc' = "done"
    /\ nFailures' = nFailures + 1
    /\ UNCHANGED <<todayString, revelation, prayer, isLoading, isLoadingPrayer,
                   error, playRevelationOnLoad, store, requests, calls, nBlobs,
                   last>>

\* handleGenerateRevelation (lines 476-489), up to its first await.
handleGenerateRevelation ==
    /\ CanSubmit
    /\ EffectsFlushed
    /\ \E name \in Names, theme \in Range(VISIBLE_THEMES), rnd \in RandomSamples :
          LET finalTheme == FinalTheme(theme, rnd)
              promptText == RevelationPrompt(name, finalTheme)
              id == FreshId
          IN /\ requests' = requests \cup
                    {[id |-> id, kind |-> "revelation", pc |-> "text",
                      name |-> name, selected |-> theme, theme |-> finalTheme,
                      prompt |-> promptText, text |-> "", reply |-> "",
                      record |-> NoRecord, storeBefore |-> store]}
             /\ calls' = calls \cup {Call(id, FALSE, promptText)}
    /\ isLoading' = TRUE
    /\ error' = ""
    /\ prayer' = NoPrayer
    /\ last' = NoOutcome
    /\ UNCHANGED <<todayString, revelation, isLoadingPrayer, playRevelationOnLoad,
                   store, loadPc, nBlobs, nFailures>>

\* handleGeneratePrayer (lines 504-512), up to its first await.
handleGeneratePrayer ==
    /\ CanAskPrayer
    /\ EffectsFlushed
    /\ IF revelation = NoRecord
         THEN UNCHANGED avars
         ELSE LET promptText == PrayerPrompt(revelation)
                  id == FreshId
              IN /\ requests' = requests \cup
                        {[id |-> id, kind |-> "prayer", pc |-> "text",
                          name |-> revelation.name, selected |-> revelation.theme,
                          theme |-> revelation.theme,
                          prompt |-> promptText, text |-> "", reply |-> "",
                          record |-> NoRecord, storeBefore |-> store]}
                 /\ calls' = calls \cup {Call(id, FALSE, promptText)}
                 /\ isLoadingPrayer' = TRUE
                 /\ error' = ""
                 /\ last' = NoOutcome
                 /\ UNCHANGED <<todayString, revelation, prayer, isLoading,
                                playRevelationOnLoad, store, loadPc, nBlobs,
                                nFailures>>

\* The catch and finally blocks as they would be were the text already
\* there put in the store on a failure.
FailKeepingText(r, outcome) ==
    /\ nFailures < MaxFailures
    /\ nFailures' = nFailures + 1
    /\ requests' = requests \ {r}
    /\ calls' = { c \in calls : c.req # r.id }
    /\ error' = IF r.kind = "revelation" THEN RevelationError ELSE PrayerError
    /\ isLoading' = IF r.kind = "revelation" THEN FALSE ELSE isLoading
    /\ isLoadingPrayer' = IF r.kind = "prayer" THEN FALSE ELSE isLoadingPrayer
    /\ last' = [kind |-> r.kind, outcome |-> outcome, storeBefore |-> r.storeBefore]
    /\ store' = IF r.kind = "revelation" /\ r.text # ""
                  THEN DbPut([date |-> todayString, text |-> r.text,
                              audio |-> NoClip, name |-> r.name, theme |-> r.theme])
                  ELSE store
    /\ UNCHANGED <<todayString, revelation, prayer, playRevelationOnLoad,
                   loadPc, nBlobs>>

\* The catch block as it would be without the finally block after it.
FailWithoutFinally(r, outcome) ==
    /\ nFailures < MaxFailures
    /\ nFailures' = nFailures + 1
    /\ requests' = requests \ {r}
    /\ calls' = { c \in calls : c.req # r.id }
    /\ error' = IF r.kind = "revelation" THEN RevelationError ELSE PrayerError
    /\ last' = [kind |-> r.kind, outcome |-> outcome, storeBefore |-> r.storeBefore]
    /\ UNCHANGED <<todayString, revelation, prayer, isLoading, isLoadingPrayer,
                   playRevelationOnLoad, store, loadPc, nBlobs>>

\* The catch and finally blocks (lines 497-501 and 515-519) of request r.
Fail(r, outcome) ==
    /\ nFailures < MaxFailures
    /\ nFailures' = nFailures + 1
    /\ requests' = requests \ {r}
    /\ calls' = { c \in calls : c.req # r.id }
    /\ error' = IF r.kind = "revelation" THEN RevelationError ELSE PrayerError
    /\ isLoading' = IF r.kind = "revelation" THEN FALSE ELSE isLoading
    /\ isLoadingPrayer' = IF r.kind = "prayer" THEN FALSE ELSE isLoadingPrayer
    /\ last' = [kind |-> r.kind, outcome |-> outcome, storeBefore |-> r.storeBefore]
    /\ UNCHANGED <<todayString, revelation, prayer, playRevelationOnLoad,
                   store, loadPc, nBlobs>>

\* The text call of a request returns (lines 489-490 and 512-513): the
\* handler goes on to the speech call.
TextResolved ==
    \E r \in requests, text \in Texts :
       /\ r.pc = "text"
       /\ Call(r.id, FALSE, r.prompt) \in calls
       /\ requests' = (requests \ {r}) \cup
              {[r EXCEPT !.pc = "audio", !.text = text, !.reply = text]}
       /\ calls' = (calls \ {Call(r.id, FALSE, r.prompt)}) \cup {SpeechCall(r, text)}
       /\ UNCHANGED <<todayString, revelation, prayer, isLoading, isLoadingPrayer,
                      error, playRevelationOnLoad, store, loadPc, nBlobs,
                      nFailures, last>>

\* The text call of a request throws.
TextRejected ==
    \E r \in requests :
       /\ r.pc = "text"
       /\ Fail(r, "textFailed")

\* The speech call of a request returns a Blob (lines 490-494 and 513-518).
AudioResolved ==
    \E r \in requests, len \in SpeechLens :
       /\ r.pc = "audio"
       /\ LET audio == [obj |-> nBlobs + 1, len |-> len]
              newRevelation == [date |-> todayString, text |-> r.text,
                                audio |-> audio, name |-> r.name,
                                theme |-> r.theme]
          IN IF r.kind = "revelation"
               THEN /\ revelation' = newRevelation
                    /\ requests' = (requests \ {r}) \cup
                           {[r EXCEPT !.pc = "save", !.record = newRevelation]}
                    /\ UNCHANGED <<prayer, isLoadingPrayer, last>>
               ELSE /\ prayer' = [text |-> r.text, audio |-> audio]
                    /\ isLoadingPrayer' = FALSE
                    /\ requests' = requests \ {r}
                    /\ last' = [kind |-> "prayer", outcome |-> "ready",
                                storeBefore |-> r.storeBefore]
                    /\ UNCHANGED revelation
       /\ calls' = { c \in calls : c.req # r.id }
       /\ nBlobs' = nBlobs + 1
       /\ UNCHANGED <<todayString, isLoading, error, playRevelationOnLoad, store,
                      loadPc, nFailures>>

\* The speech call of a request throws (no audio data, or a service error).
AudioRejected ==
    \E r \in requests :
       /\ r.pc = "audio"
       /\ Fail(r, "speechFailed")

\* saveRevelationToDB returns (lines 494-495, 499-501).  The put is served
\* after the get the mount effect queued.
SaveResolved ==
    \E r \in requests :
       /\ r.pc = "save"
       /\ loadPc = "done"
       /\ store' = DbPut(r.record)
       /\ playRevelationOnLoad' = TRUE
       /\ isLoading' = FALSE
       /\ requests' = requests \ {r}
       /\ last' = [kind |-> "revelation", outcome |-> "ready",
                   storeBefore |-> r.storeBefore]
       /\ UNCHANGED <<todayString, revelation, prayer, isLoadingPrayer, error,
                      loadPc, calls, nBlobs, nFailures>>

\* saveRevelationToDB throws.
SaveRejected ==
    \E r \in requests :
       /\ r.pc = "save"
       /\ loadPc = "done"
       /\ Fail(r, "saveFailed")

\* The autoplay effect (lines 469-474), as far as the App's own state goes.
AutoplayEffect ==
    /\ playRevelationOnLoad
    /\ revelation.audio # NoClip
    /\ playRevelationOnLoad' = FALSE
    /\ UNCHANGED <<todayString, revelation, prayer, isLoading, isLoadingPrayer,
                   error, store, loadPc, requests, calls, nBlobs, nFailures,
                   last>>

\* ------------------------------------------------------------ handleShare
NoShare == [type |-> "", native |-> FALSE, link |-> FALSE, failed |-> FALSE]

NoFile == [name |-> "", size |-> 0]

ShareTypes == {"revelation", "prayer"}

\* content of handleShare (line 523)
Content(type) == IF type = "prayer" THEN prayer ELSE revelation

\* !content (line 524)
NoContent(type) == IF type = "prayer" THEN prayer = NoPrayer ELSE revelation = NoRecord

\* The share buttons of the card (lines 374-379 and 406-411).
CanShareType(type) == CardShown /\ (type = "prayer" => prayer # NoPrayer)

FreshShareId == CHOOSE i \in 1..(Cardinality(shares) + 1) :
                   \A sh \in shares : sh.id # i

\* How a share request ended: with the native share completed, with the
\* text-only link opened (window.open, lines 548-549), or both.
ShareOutcome(type, native, link, failed) ==
    [type |-> type, native |-> native, link |-> link, failed |-> failed]

\* handleShare (lines 522-531), up to its first await, or up to its end when
\* it does not try the native share.
handleShare ==
    /\ EffectsFlushed
    /\ nShares < MaxShares
    /\ nShares' = nShares + 1
    /\ \E type \in ShareTypes, hasShare \in BOOLEAN :
          /\ CanShareType(type)
          /\ IF NoContent(type)
               THEN UNCHANGED <<shares, lastShare>>
               ELSE IF hasShare /\ Content(type).audio # NoClip
                 THEN /\ shares' = shares \cup
                            {[id |-> FreshShareId, type |-> type, pc |-> "wav",
                              audio |-> Content(type).audio, file |-> NoFile]}
                      /\ UNCHANGED lastShare
                 ELSE /\ lastShare' = ShareOutcome(type, FALSE, TRUE, FALSE)
                      /\ UNCHANGED shares
    /\ UNCHANGED avars

\* pcmToWav resolves (lines 531-541): the file is built, and is handed to
\* navigator.share when navigator.canShare accepts it; the link is opened
\* when it does not.
WavResolved ==
    \E sh \in shares, canShare \in BOOLEAN :
       /\ sh.pc = "wav"
       /\ LET audioFile == [name |-> sh.type, size |-> WavSize(sh.audio.len)]
          IN IF canShare
               THEN /\ shares' = (shares \ {sh}) \cup
                          {[sh EXCEPT !.pc = "share", !.file = audioFile]}
                    /\ UNCHANGED lastShare
               ELSE /\ shares' = shares \ {sh}
                    /\ lastShare' = ShareOutcome(sh.type, FALSE, TRUE, FALSE)
       /\ UNCHANGED nShares
       /\ UNCHANGED avars

\* pcmToWav rejects, or new File or navigator.canShare throws: the catch
\* block (lines 542-544), then the link.
WavRejected ==
    \E sh \in shares :
       /\ sh.pc = "wav"
       /\ shares' = shares \ {sh}
       /\ lastShare' = ShareOutcome(sh.type, FALSE, TRUE, TRUE)
       /\ UNCHANGED nShares
       /\ UNCHANGED avars

\* The end of a share request whose native share completed, as it would be
\* without the return of line 540: the handler goes on to the link.
ShareCompletedFallingThrough(sh) ==
    /\ shares' = shares \ {sh}
    /\ lastShare' = ShareOutcome(sh.type, TRUE, TRUE, FALSE)
    /\ UNCHANGED nShares
    /\ UNCHANGED avars

\* The end of a share request whose native share completed (line 540).
ShareCompleted(sh) ==
    /\ shares' = shares \ {sh}
    /\ lastShare' = ShareOutcome(sh.type, TRUE, FALSE, FALSE)
    /\ UNCHANGED nShares
    /\ UNCHANGED avars

\* navigator.share resolves (lines 535-540): the handler returns.
ShareResolved ==
    \E sh \in shares :
       /\ sh.pc = "share"
       /\ ShareCompleted(sh)

\* navigator.share rejects (the dialog was dismissed, or the share failed):
\* the catch block, then the link.
ShareRejected ==
    \E sh \in shares :
       /\ sh.pc = "share"
       /\ shares' = shares \ {sh}
       /\ lastShare' = ShareOutcome(sh.type, FALSE, TRUE, TRUE)
       /\ UNCHANGED nShares
       /\ UNCHANGED avars

\* No share was requested.
ShareIdle ==
    /\ shares = {}
    /\ nShares = 0
    /\ lastShare = NoShare

ShareUnchanged == UNCHANGED svars

\* ------------------------------------------------------------ App spec
\* The App after its first render and its mount effect, on a store that
\* earlier sessions may have written.
AppInit ==
    /\ todayString = Today
    /\ revelation = NoRecord
    /\ prayer = NoPrayer
    /\ isLoading = FALSE
    /\ isLoadingPrayer = FALSE
    /\ error = ""
    /\ playRevelationOnLoad = FALSE
    /\ store \in { [d \in K |-> EarlierRecord(d)] : K \in SUBSET DateKeys }
    /\ loadPc = "pending"
    /\ requests = {}
    /\ calls = {}
    /\ nBlobs = 0
    /\ nFailures = 0
    /\ last = NoOutcome

\* The transport of a hook that was rendered with no clip.
PlayerIdle ==
    /\ audioBlob = NoClip
    /\ isPlaying = FALSE
    /\ duration = 0
    /\ currentTime = 0
    /\ audioBufferRef = NoBuffer
    /\ sourceRef = 0
    /\ timerRef = 0
    /\ startTimeRef = 0
    /\ decodes = [b \in Clips |-> 0]
    /\ sources = << >>
    /\ timers = {}
    /\ ctxTime = 0
    /\ nChanges = 0
    /\ pausedAt = -1
    /\ undisturbed = {}
    /\ decodeFailed = FALSE

\* The App without its two useAudioPlayer instances, whose state it leaves
\* as it is.
Init == AppInit /\ ShareIdle /\ PlayerIdle /\ CodecIdle

HooksUnchanged == UNCHANGED <<tvars, hvars>>

Next ==
    \/ LoadDone /\ ShareUnchanged /\ HooksUnchanged /\ CodecUnchanged
    \/ LoadFailed /\ ShareUnchanged /\ HooksUnchanged /\ CodecUnchanged
    \/ handleGenerateRevelation /\ ShareUnchanged /\ HooksUnchanged /\ CodecUnchanged
    \/ handleGeneratePrayer /\ ShareUnchanged /\ HooksUnchanged /\ CodecUnchanged
    \/ TextResolved /\ ShareUnchanged /\ HooksUnchanged /\ CodecUnchanged
    \/ TextRejected /\ ShareUnchanged /\ HooksUnchanged /\ CodecUnchanged
    \/ AudioResolved /\ ShareUnchanged /\ HooksUnchanged /\ CodecUnchanged
    \/ AudioRejected /\ ShareUnchanged /\ HooksUnchanged /\ CodecUnchanged
    \/ SaveResolved /\ ShareUnchanged /\ HooksUnchanged /\ CodecUnchanged
    \/ SaveRejected /\ ShareUnchanged /\ HooksUnchanged /\ CodecUnchanged
    \/ AutoplayEffect /\ ShareUnchanged /\ HooksUnchanged /\ CodecUnchanged
    \/ handleShare /\ HooksUnchanged /\ CodecUnchanged
    \/ WavResolved /\ HooksUnchanged /\ CodecUnchanged
    \/ WavRejected /\ HooksUnchanged /\ CodecUnchanged
    \/ ShareResolved /\ HooksUnchanged /\ CodecUnchanged
    \/ ShareRejected /\ HooksUnchanged /\ CodecUnchanged

Spec == Init /\ [][Next]_vars

\* One useAudioPlayer instance on its own, rendered by a parent that may give
\* it any clip at any time.
AppIdle ==
    /\ todayString = Today
    /\ revelation = NoRecord
    /\ prayer = NoPrayer
    /\ isLoading = FALSE
    /\ isLoadingPrayer = FALSE
    /\ error = ""
    /\ playRevelationOnLoad = FALSE
    /\ store = << >>
    /\ loadPc = "done"
    /\ requests = {}
    /\ calls = {}
    /\ nBlobs = 0
    /\ nFailures = 0
    /\ last = NoOutcome

AppUnchanged == UNCHANGED <<avars, svars>>

InitPlayer == PlayerInit /\ AppIdle /\ ShareIdle /\ CodecIdle

NextPlayer ==
    \/ SetClip /\ AppUnchanged /\ CodecUnchanged
    \/ ProcessAudio /\ AppUnchanged /\ CodecUnchanged
    \/ play /\ AppUnchanged /\ CodecUnchanged
    \/ pause /\ AppUnchanged /\ CodecUnchanged
    \/ OnEnded /\ AppUnchanged /\ CodecUnchanged
    \/ Tick /\ AppUnchanged /\ CodecUnchanged
    \/ AdvanceClock /\ AppUnchanged /\ CodecUnchanged

SpecPlayer == InitPlayer /\ [][NextPlayer]_vars

\* The generation handlers and the store on their own, with every call to a
\* service and to the store returning or failing in the end.
OthersUnchanged == ShareUnchanged /\ HooksUnchanged /\ CodecUnchanged

NextGen ==
    \/ LoadDone /\ OthersUnchanged
    \/ LoadFailed /\ OthersUnchanged
    \/ handleGenerateRevelation /\ OthersUnchanged
    \/ handleGeneratePrayer /\ OthersUnchanged
    \/ TextResolved /\ OthersUnchanged
    \/ TextRejected /\ OthersUnchanged
    \/ AudioResolved /\ OthersUnchanged
    \/ AudioRejected /\ OthersUnchanged
    \/ SaveResolved /\ OthersUnchanged
    \/ SaveRejected /\ OthersUnchanged
    \/ AutoplayEffect /\ OthersUnchanged

CallsSettle ==
    /\ WF_vars((LoadDone \/ LoadFailed) /\ OthersUnchanged)
    /\ WF_vars((TextResolved \/ TextRejected) /\ OthersUnchanged)
    /\ WF_vars((AudioResolved \/ AudioRejected) /\ OthersUnchanged)
    /\ WF_vars((SaveResolved \/ SaveRejected) /\ OthersUnchanged)

SpecGen == Init /\ [][NextGen]_vars /\ CallsSettle

\* The App with the useAudioPlayer instance of the revelation (line 454),
\* when the user does nothing but submit the form.  The hook is rendered
\* with revelation?.audio after every step that sets the revelation.
RenderRevelationPlayer ==
    IF revelation'.audio # audioBlob
      THEN /\ Rerender(revelation'.audio)
           /\ UNCHANGED nChanges
           /\ pausedAt' = -1
           /\ undisturbed' = {}
           /\ decodeFailed' = FALSE
      ELSE UNCHANGED <<tvars, hvars>>

\* The autoplay effect (lines 469-474) calls playRevelation().
AutoplayEffectPlays == AutoplayEffect /\ play

NextApp ==
    \/ LoadDone /\ RenderRevelationPlayer /\ ShareUnchanged /\ CodecUnchanged
    \/ LoadFailed /\ OthersUnchanged
    \/ handleGenerateRevelation /\ OthersUnchanged
    \/ TextResolved /\ OthersUnchanged
    \/ TextRejected /\ OthersUnchanged
    \/ AudioResolved /\ RenderRevelationPlayer /\ ShareUnchanged /\ CodecUnchanged
    \/ AudioRejected /\ OthersUnchanged
    \/ SaveResolved /\ OthersUnchanged
    \/ SaveRejected /\ OthersUnchanged
    \/ AutoplayEffectPlays /\ ShareUnchanged /\ CodecUnchanged
    \/ ProcessAudio /\ AppUnchanged /\ CodecUnchanged
    \/ OnEnded /\ AppUnchanged /\ CodecUnchanged
    \/ Tick /\ AppUnchanged /\ CodecUnchanged
    \/ AdvanceClock /\ AppUnchanged /\ CodecUnchanged

\* Every call settles, every effect and every queued callback runs.
AppProgress ==
    /\ CallsSettle
    /\ WF_vars(AutoplayEffectPlays /\ ShareUnchanged /\ CodecUnchanged)
    /\ WF_vars(ProcessAudio /\ AppUnchanged /\ CodecUnchanged)
    /\ WF_vars(OnEnded /\ AppUnchanged /\ CodecUnchanged)
    /\ WF_vars(Tick /\ AppUnchanged /\ CodecUnchanged)
    /\ WF_vars(AdvanceClock /\ AppUnchanged /\ CodecUnchanged)

SpecApp == Init /\ [][NextApp]_vars /\ AppProgress

\* decodePcmData and pcmToWav on their own, applied to any input.
InitCodec == CodecInit /\ AppIdle /\ ShareIdle /\ PlayerIdle

NextCodec ==
    \/ DecodePcmData /\ AppUnchanged /\ HooksUnchanged
    \/ PcmToWav /\ AppUnchanged /\ HooksUnchanged

SpecCodec == InitCodec /\ [][NextCodec]_vars

\* ================================================================ properties
\* The sources that have been started and have neither been stopped nor
\* reached the end of their buffer.
ActiveSources == { id \in SourceIds : sources[id].st = "playing" }

\* The sources on which stop() was never called and whose ended event has
\* not been delivered.
UnstoppedSources == { id \in SourceIds : sources[id].st \in {"playing", "finished"} }

\* The source the step creates, 0 when it creates none, and the offset into
\* its buffer at which it was started.
Created == IF Len(sources') > Len(sources) THEN Len(sources') ELSE 0

CreatedOffset ==
    BufferDuration(sources'[Created].buffer) - (sources'[Created].endAt - ctxTime)

\* C1: at any time at most one audio source of the transport has been
\* started and has not yet stopped or ended.
C1_AtMostOneActiveSource == Cardinality(ActiveSources) <= 1

\* C2: a play() that follows a pause() made at elapsedTime t, on the same
\* clip, starts the new source at offset t and records the start instant
\* now - t, whatever callbacks were delivered in between.
C2_ResumeFromPause ==
    [][(pausedAt >= 0 /\ Created # 0)
          => /\ CreatedOffset = pausedAt
             /\ startTimeRef' = ctxTime - pausedAt]_vars

\* C3: when the ended event of a source is delivered after the buffer ran
\* out, and no pause() and no change of clip followed the play() that
\* started it, the transport is Ended: not playing, no sampler running,
\* elapsedTime 0.
C3_NaturalEndResets ==
    [][\A id \in SourceIds :
          (id \in undisturbed /\ sources[id].st = "finished"
               /\ sources'[id].st = "ended")
            => (~isPlaying' /\ timers' = {} /\ currentTime' = 0)]_vars

\* C4: isPlaying implies that a source exists that was started and has
\* neither been stopped nor delivered its ended event.
C4_PlayingImpliesActiveSource == isPlaying => UnstoppedSources # {}

\* C5: 0 <= elapsedTime <= totalDuration in every reachable state.
C5_ElapsedWithinDuration == 0 <= currentTime /\ currentTime <= duration

\* C6: a change of clip stops any active source and clears the sampler;
\* once the new clip is decoded the transport is Idle for it, and no play()
\* after the change starts the buffer of a previous clip.
C6_ClipChangeResets ==
    /\ [][audioBlob' # audioBlob => (ActiveSources' = {} /\ timers' = {})]_vars
    /\ [][(\E blob \in Clips : /\ blob = audioBlob
                               /\ decodes'[blob] < decodes[blob]
                               /\ ~DecodeFails(blob))
            => /\ ~isPlaying'
               /\ currentTime' = 0
               /\ duration' = BufferDuration(DecodedBuffer(audioBlob))]_vars
    /\ [][Created # 0 => sources'[Created].buffer.obj = audioBlob.obj]_vars

\* The calls of request r that are in flight.
CallsOf(r) == { c \in calls : c.req = r.id }

\* The records in memory and in the store.
Records == { store[d] : d \in DOMAIN store } \cup ({revelation} \ {NoRecord})

\* C7: after a generateRevelation request whose text generation succeeded
\* and whose speech synthesis failed, the store is exactly what it was
\* before the request.
C7_NoPartialWrite ==
    (last.kind = "revelation" /\ last.outcome = "speechFailed")
       => store = last.storeBefore

C7_Witness == last.kind = "revelation" /\ last.outcome = "speechFailed"

\* C8: the theme of a generateRevelation request whose selected theme is
\* the sentinel is an element of the full catalog and never the sentinel,
\* the theme of any other request is the selected one, and that theme is
\* the one embedded in the prompt and stored in the record.
C8_SentinelResolved ==
    /\ \A r \in InFlight("revelation") :
          /\ r.selected = Sentinel
                => (r.theme \in Range(ALL_THEMES) /\ r.theme # Sentinel)
          /\ r.selected # Sentinel => r.theme = r.selected
          /\ r.prompt = RevelationPrompt(r.name, r.theme)
          /\ r.pc = "text" => CallsOf(r) = {Call(r.id, FALSE, r.prompt)}
          /\ r.pc = "save" => (r.record.theme = r.theme /\ revelation.theme # Sentinel)
    /\ \A rec \in Records : rec.theme \in Range(ALL_THEMES) \ {Sentinel}

C8_Witness ==
    \E r \in InFlight("revelation") :
       r.selected = Sentinel /\ r.pc = "save" /\ r.record.theme = "Esperanca"

\* C9: the speech call of a request is in flight only after the text call
\* of that request has returned, with the returned text as its input, and
\* never beside the text call; a request starts with no text.
C9_SpeechAfterText ==
    \A r \in requests :
       /\ r.pc = "text"
             => /\ r.text = "" /\ r.reply = ""
                /\ CallsOf(r) = {Call(r.id, FALSE, r.prompt)}
       /\ r.pc = "audio"
             => /\ r.reply \in Texts
                /\ CallsOf(r) = {Call(r.id, TRUE, Verbatim(r.reply))}
       /\ r.pc = "save" => CallsOf(r) = {}

C9_Witness ==
    /\ nFailures > 0
    /\ \E r \in requests : r.pc = "audio" /\ CallsOf(r) # {}

\* C10: at most one generateRevelation request and at most one
\* generatePrayer request are in flight; while one is, its busy flag is true
\* and the control that starts one of its kind cannot start another.
C10_OneRequestPerKind ==
    /\ Cardinality(InFlight("revelation")) <= 1
    /\ Cardinality(InFlight("prayer")) <= 1
    /\ InFlight("revelation") # {} => (isLoading /\ ~CanSubmit)
    /\ InFlight("prayer") # {} => (isLoadingPrayer /\ ~CanAskPrayer)

C10_Witness ==
    \E r \in InFlight("prayer") : r.pc = "audio" /\ isLoadingPrayer

\* The steps of a request of the given kind: it starts, goes on to its next
\* call, completes or fails.
RevelationStep == InFlight("revelation")' # InFlight("revelation")
PrayerStep == InFlight("prayer")' # InFlight("prayer")

\* C11: the revelation and the prayer operations have independent error
\* slots: no step of a generatePrayer request sets or clears the error
\* message of the revelation, and no step of a generateRevelation request
\* sets or clears the error message of the prayer.
C11_IndependentErrorSlots ==
    /\ [][PrayerStep =>
             ((error' = RevelationError) <=> (error = RevelationError))]_vars
    /\ [][RevelationStep =>
             ((error' = PrayerError) <=> (error = PrayerError))]_vars

\* C12: generatePrayer starts nothing when no revelation is present;
\* otherwise no step of the request changes the revelation in memory or the
\* store, and the prompt of the prayer it attaches names the name and the
\* theme of that revelation.
C12_PrayerLeavesRevelation ==
    /\ [](\A r \in InFlight("prayer") :
            /\ revelation # NoRecord
            /\ r.prompt.tpl = "prayer"
            /\ r.prompt.name = revelation.name
            /\ r.prompt.theme = revelation.theme
            /\ store = r.storeBefore)
    /\ []((last.kind = "prayer" /\ last.outcome = "ready")
            => (prayer # NoPrayer /\ store = last.storeBefore))
    /\ [][PrayerStep => (revelation' = revelation /\ store' = store)]_vars
    /\ [][revelation = NoRecord
             => (InFlight("prayer")' = {} /\ isLoadingPrayer' = isLoadingPrayer
                   /\ prayer' = NoPrayer)]_vars

C12_Witness ==
    /\ last.kind = "prayer" /\ last.outcome = "ready"
    /\ prayer # NoPrayer
    /\ revelation.name = "Ana" /\ revelation.theme = "Fe"

\* The revelation request that the step completes with its record saved.
Saved(r) ==
    /\ r.kind = "revelation" /\ r.pc = "save"
    /\ r \notin requests'
    /\ last'.kind = "revelation" /\ last'.outcome = "ready"

\* C13: the store holds each record under its own dateKey and so at most
\* one per dateKey; a successful generateRevelation leaves the record it
\* produced under its dateKey and the records under the other dateKeys as
\* they were; nothing else writes the store, and no record is ever removed.
C13_OneRecordPerDate ==
    /\ [](\A d \in DOMAIN store : store[d].date = d)
    /\ [][DOMAIN store \subseteq DOMAIN store']_vars
    /\ [][\A r \in requests :
             Saved(r) => /\ r.record.date \in DOMAIN store'
                         /\ store'[r.record.date] = r.record
                         /\ \A d \in DOMAIN store \ {r.record.date} :
                               store'[d] = store[d]]_vars
    /\ [][store' # store => \E r \in requests : Saved(r)]_vars

C13_Witness ==
    /\ last.kind = "revelation" /\ last.outcome = "ready"
    /\ Today \in DOMAIN last.storeBefore
    /\ DOMAIN store = DateKeys
    /\ store[Today].name = "Ana"
    /\ store["d1"] = EarlierRecord("d1")

\* C14: for every PCM byte sequence b of even length, what pcmToWav
\* resolves with is 44 + len(b) bytes long and its bytes from offset 44 on
\* are those of b.
C14_PayloadPassthrough ==
    (wavBlob.st = "resolved" /\ Len(data) % 2 = 0)
       => /\ Len(wavBlob.bytes) = 44 + Len(data)
          /\ \A i \in 1..Len(data) : wavBlob.bytes[44 + i] = data[i]

C14_Witness ==
    wavBlob.st = "resolved" /\ data = <<0, 128, 255, 127>>

\* The little-endian unsigned integers at a zero-based offset of a byte
\* sequence.
U16LE(bytes, offset) == bytes[offset + 1] + 256 * bytes[offset + 2]
U32LE(bytes, offset) ==
    bytes[offset + 1] + 256 * bytes[offset + 2] + 65536 * bytes[offset + 3]
       + 16777216 * bytes[offset + 4]

\* C15: for sampleRate 24000, one channel, 16 bits per sample and data size
\* D, the header has the u32 36 + D at bytes 4..7, the u16 numChannels at
\* 22..23, the u32 sampleRate at 24..27, the u32 byte rate at 28..31, the
\* u16 block align at 32..33 and the u32 D at 40..43.
C15_HeaderFields ==
    wavBlob.st = "resolved"
       => LET D == Len(data)
              header == SubSeq(wavBlob.bytes, 1, 44)
          IN /\ U32LE(header, 4) = 36 + D
             /\ U16LE(header, 22) = 1
             /\ U32LE(header, 24) = 24000
             /\ U32LE(header, 28) = 48000
             /\ U16LE(header, 32) = 2
             /\ U32LE(header, 40) = D

C15_Witness ==
    wavBlob.st = "resolved" /\ Len(data) = 256

\* C16: for every byte sequence and every channel count C, decodePcmData
\* either returns a buffer of exactly N / C frames, N = byteLength / 2
\* being the number of int16 samples, or, the byte length not being a
\* multiple of 2 * C, throws.
C16_FrameCountOrError ==
    buffer.st # "none"
       => \/ /\ buffer.st = "returned"
             /\ 2 * numChannels * buffer.frames = Len(data)
          \/ /\ Len(data) % (2 * numChannels) # 0
             /\ buffer.st = "thrown"

\* C17: once the decode of the hook's clip has failed, and until a decode
\* succeeds, no step creates an audio source or sets isPlaying.
C17_FailedDecodeInert ==
    [][decodeFailed => (Created = 0 /\ (~isPlaying => ~isPlaying'))]_vars

\* C18: a share request ends either with the native share completed or
\* with the text-only link opened, never with both; a request in which the
\* encoding or the native share failed ends with the link; no step of a
\* share request changes the error message.
C18_ShareOneOutcome ==
    /\ [](lastShare # NoShare
            => /\ lastShare.native # lastShare.link
               /\ lastShare.failed => lastShare.link)
    /\ [][(shares' # shares \/ lastShare' # lastShare) => error' = error]_vars

C18_Witness ==
    /\ lastShare.type = "revelation"
    /\ lastShare.failed /\ lastShare.link /\ ~lastShare.native
    /\ error = RevelationError

\* C19: each decoded sample of a well-formed input is the signed 16-bit
\* little-endian integer at sample index i * numChannels + c, over 32768:
\* 0 gives 0, 32767 gives 32767/32768, -32768 gives -1.
C19_SampleNormalisation ==
    (buffer.st = "returned" /\ Len(data) % (2 * numChannels) = 0)
       => \A c \in 1..numChannels, i \in 1..buffer.frames :
             LET k == (i - 1) * numChannels + (c - 1)
                 lo == data[2 * k + 1]
                 hi == data[2 * k + 2]
                 int16 == IF hi >= 128 THEN lo + 256 * hi - 65536 ELSE lo + 256 * hi
                 sample == buffer.channels[c][i]
             IN /\ sample.den = 32768 /\ sample.num = int16
                /\ (lo = 0 /\ hi = 0) => sample.num = 0
                /\ (lo = 255 /\ hi = 127) => sample.num = 32767
                /\ (lo = 0 /\ hi = 128) => sample.num = -sample.den

C19_Witness ==
    /\ buffer.st = "returned"
    /\ numChannels = 2
    /\ data = <<0, 128, 255, 127>>

\* C20: a play() made while isPlaying holds or while no buffer is loaded,
\* and a pause() made while isPlaying does not hold, change nothing of the
\* transport.
C20_NoOpCalls ==
    /\ [][(play /\ (isPlaying \/ audioBufferRef = NoBuffer))
             => UNCHANGED tvars]_vars
    /\ [][(pause /\ ~isPlaying) => UNCHANGED tvars]_vars

C20_Witness ==
    /\ isPlaying /\ audioBufferRef # NoBuffer
    /\ ActiveSources # {}
    /\ currentTime > 0

\* The request the step ends: none of its continuations is left.
Ends(r) == \A q \in requests' : q.id # r.id

ErrorOf(kind) == IF kind = "revelation" THEN RevelationError ELSE PrayerError

\* C21: a busy flag is cleared only by a step that ends the request of its
\* kind; a request ends with its busy flag cleared, and either with its
\* result there and no error message or with the error message of its
\* operation; and, the calls settling, every busy flag is cleared in the end.
C21_BusyFlagClears ==
    /\ [][(isLoading /\ ~isLoading')
             => \E r \in InFlight("revelation") : Ends(r)]_vars
    /\ [][(isLoadingPrayer /\ ~isLoadingPrayer')
             => \E r \in InFlight("prayer") : Ends(r)]_vars
    /\ [][\A r \in requests :
             Ends(r)
               => /\ r.kind = "revelation" => ~isLoading'
                  /\ r.kind = "prayer" => ~isLoadingPrayer'
                  /\ \/ /\ last'.outcome = "ready"
                        /\ error' = ""
                        /\ r.kind = "revelation"
                              => /\ revelation' # NoRecord
                                 /\ store'[todayString] = r.record
                        /\ r.kind = "prayer"
                              => /\ prayer' # NoPrayer
                                 /\ prayer'.text = r.text
                     \/ /\ last'.outcome # "ready"
                        /\ error' = ErrorOf(r.kind)]_vars
    /\ (isLoading ~> ~isLoading)
    /\ (isLoadingPrayer ~> ~isLoadingPrayer)

C21_Witness ==
    /\ last.kind = "prayer" /\ last.outcome = "speechFailed"
    /\ ~isLoadingPrayer /\ error = PrayerError
    /\ nFailures = 2

\* The outcomes with which a request ends in its catch block.
Failures == {"textFailed", "speechFailed", "saveFailed"}

\* C22: when a generateRevelation request ends with the error message of
\* the revelation set, the revelation in memory is what it was before the
\* request: the step that ends the request leaves it alone, and it is not
\* the record the request produced and did not persist.
C22_FailureKeepsRevelation ==
    [][\A r \in InFlight("revelation") :
          (Ends(r) /\ last'.outcome \in Failures /\ error' = RevelationError)
             => /\ revelation' = revelation
                /\ r.record # NoRecord => revelation' # r.record]_vars

\* C23: once a generateRevelation request has succeeded, the revelation in
\* memory is the record it produced, which is the record of the store for
\* today, and the startup load does not replace it.
C23_LoadKeepsNewRevelation ==
    /\ []((last.kind = "revelation" /\ last.outcome = "ready")
            => /\ todayString \in DOMAIN store
               /\ revelation = store[todayString])
    /\ [][\A r \in requests :
             (r.kind = "revelation" /\ r.pc = "save" /\ loadPc' # loadPc)
                => revelation' = revelation]_vars

\* The samplers the step stops.
StoppedTimers == timers \ timers'

\* C25: at most one progress sampler runs; one runs only while the source
\* that was started with it has neither been stopped nor delivered its
\* ended event; and the ended callback of a source stops no sampler but the
\* one that was started with that source.
C25_OneSamplerPerSource ==
    /\ [](Cardinality(timers) <= 1)
    /\ [](\A t \in timers : t.id \in UnstoppedSources)
    /\ [][\A id \in SourceIds :
             (sources[id].st \in {"stopped", "finished"}
                  /\ sources'[id].st = "ended")
               => \A t \in StoppedTimers : t.id = id]_vars

\* A generateRevelation request has succeeded with audio that can be decoded.
RevelationReady ==
    /\ last.kind = "revelation" /\ last.outcome = "ready"
    /\ todayString \in DOMAIN store
    /\ ~DecodeFails(store[todayString].audio)

\* The transport of the revelation is playing the audio of the record that
\* was generated.
PlayingNewAudio ==
    /\ isPlaying
    /\ todayString \in DOMAIN store
    /\ \E id \in UnstoppedSources :
          sources[id].buffer.obj = store[todayString].audio.obj

\* C24: after a successful generateRevelation request the transport of the
\* revelation clip is Playing for the new audio in the end, in whatever
\* order the decode of the new clip and the store write complete.
C24_AutoplayAfterGeneration == RevelationReady ~> PlayingNewAudio

====
